---- MODULE Spec2Model ----
(***************************************************************************)
(* Model of the lineup genetic algorithm (ga.ts: src/unnamed/part_000)     *)
(* and of the HTTP service in front of it (auth.ts and main.ts:            *)
(* src/unnamed/part_005).                                                  *)
(*                                                                         *)
(* JavaScript arrays are 0-based, TLA+ sequences 1-based: source index k   *)
(* is sequence index k + 1.  An object reference that may be null or       *)
(* undefined is <<>> (none) or <<object>>; a null id is the string NULL.   *)
(* A fitness is the exact rational num/den (den > 0) of the float the      *)
(* source computes.  Math.random() is a nondeterministic choice: an        *)
(* operator that draws returns the SET of its possible outcomes.           *)
(***************************************************************************)
EXTENDS Integers, Sequences, FiniteSets, TLC

\* ------------------------------------------------------------------ bounds
\* Sizes of the inputs a caller passes.
MaxPlayers == 2
MaxPositions == 2
MaxPref == 1
MaxPeriods == 2
\* Longest preference list of the evaluator specification.
MaxPrefEval == 3
\* Length and value range of the score lists of the score-list specification.
MaxScores == 3
MaxScore == 3
\* Most players, and the number of slots, of the placement specification.
MaxRoster == 4
\* Requests the server handles at the same time.
MaxRequests == 2
\* Longest Authorization header, in pieces (see HeaderPieces).
MaxHeader == 4
\* The source's POP_MAX = 30, GENERATIONS = 10 and attempt cap 10000
\* (part_000:356, 358, 300), scaled down to keep the state space finite
\* and small.
POP_MAX == 2
GENERATIONS == 2
ATTEMPT_CAP == 1

\* A convergence threshold that a one-round game of MaxPositions slots
\* reaches.
perfectScoreOneRound == MaxPositions

\* perfectScore, the convergence threshold set by the Population constructor.
perfectScore == 8

NULL == "null"

PositionNames == <<"A", "B", "C", "D", "E">>
Ids == <<"p1", "p2", "p3", "p4", "p5">>
Names == <<"Alice", "Bob", "Carol", "Dave", "Erin">>

\* ----------------------------------------------------------------- helpers
Range(s) == {s[k] : k \in DOMAIN s}

Min(a, b) == IF a < b THEN a ELSE b

SeqsUpTo(S, n) == UNION {[1..m -> S] : m \in 0..n}

\* s with s[k] = v (1-based k).
setAt(s, k, v) == [n \in DOMAIN s |-> IF n = k THEN v ELSE s[n]]

RECURSIVE SumSeq(_)
SumSeq(s) == IF s = <<>> THEN 0 ELSE s[1] + SumSeq(Tail(s))

\* Exact rationals for the source's floating point fitness values.
Rat(n, d) == [num |-> n, den |-> d]
RatLess(a, b) == a.num * b.den < b.num * a.den
RatLeq(a, b) == a.num * b.den <= b.num * a.den
RatEq(a, b) == a.num * b.den = b.num * a.den
Zero == Rat(0, 1)

\* ------------------------------------------------------- fitness evaluator
\* Array.prototype.indexOf: the first (0-based) index of x in s, or -1.
indexOf(s, x) ==
    IF \E k \in DOMAIN s : s[k] = x
    THEN (CHOOSE k \in DOMAIN s : s[k] = x /\ \A m \in 1..(k - 1) : s[m] # x) - 1
    ELSE -1

\* game[i][j] of the source (0-based i, j) as <<entry>>, or <<>> (undefined)
\* when the row has no entry j.
gameAt(game, i, j) ==
    IF i + 1 \in DOMAIN game /\ j + 1 \in DOMAIN game[i + 1]
    THEN <<game[i + 1][j + 1]>>
    ELSE <<>>

\* A score that grows with the rank instead of falling with it.
scoreTermWorstFirst(player, game, positions, i, j) ==
    LET assigned == gameAt(game, i, j)
        rankIndex == indexOf(player.pref, positions[j + 1])
    IN IF assigned # <<>> /\ assigned[1].name = player.name /\ rankIndex >= 0
       THEN Len(positions) + rankIndex
       ELSE 0

\* The amount the innermost loop body of sumPlayerScores adds for (i, j).
scoreTerm(player, game, positions, i, j) ==
    LET assigned == gameAt(game, i, j)
        rankIndex == indexOf(player.pref, positions[j + 1])
    IN IF assigned # <<>> /\ assigned[1].name = player.name /\ rankIndex >= 0
       THEN Len(positions) - rankIndex
       ELSE 0

sumPlayerScores(game, players, positions, periodCount) ==
    [p \in DOMAIN players |->
        SumSeq([k \in 1..(periodCount * Len(positions)) |->
            scoreTerm(players[p], game, positions,
                      (k - 1) \div Len(positions), (k - 1) % Len(positions))])]

\* The mean sum/length as a rational; 0 for the empty list.
getAveragePlayerScore(playerScores) ==
    IF Len(playerScores) = 0 THEN Zero
    ELSE Rat(SumSeq(playerScores), Len(playerScores))

\* slice().sort((a, b) => b - a): the list in descending order.
RECURSIVE sortDescending(_)
sortDescending(s) ==
    IF s = <<>> THEN <<>>
    ELSE LET m == CHOOSE k \in DOMAIN s : \A n \in DOMAIN s : s[n] <= s[k]
             rest == [n \in 1..(Len(s) - 1) |-> IF n < m THEN s[n] ELSE s[n + 1]]
         IN <<s[m]>> \o sortDescending(rest)

getGameScoreDistributionUnsorted(playerScores) ==
    LET diffs == [k \in 1..(Len(playerScores) - 1) |->
                     playerScores[k] - playerScores[k + 1]]
    IN IF Len(playerScores) <= 1 THEN 0 ELSE SumSeq(diffs)

getGameScoreDistribution(playerScores) ==
    LET sorted == sortDescending(playerScores)
        diffs == [k \in 1..(Len(sorted) - 1) |-> sorted[k] - sorted[k + 1]]
    IN IF Len(diffs) = 0 THEN 0 ELSE SumSeq(diffs)

\* A ratio that ignores the distribution.
getGameScoreRatioMeanOnly(game, players, positions, periodCount) ==
    getAveragePlayerScore(sumPlayerScores(game, players, positions, periodCount))

getGameScoreRatio(game, players, positions, periodCount) ==
    LET playerScores == sumPlayerScores(game, players, positions, periodCount)
        avg == getAveragePlayerScore(playerScores)
        distrib == getGameScoreDistribution(playerScores)
    IN Rat(avg.num, avg.den * (distrib + 1))

\* ----------------------------------------------------------------- shuffle
\* [arr[i], arr[j]] = [arr[j], arr[i]] with 0-based i, j.
swapOverwrite(arr, i, j) == [arr EXCEPT ![i + 1] = arr[j + 1]]

swap(arr, i, j) == [arr EXCEPT ![i + 1] = arr[j + 1], ![j + 1] = arr[i + 1]]

\* The Fisher-Yates loop from index i down to 1: every array it can leave.
RECURSIVE fisherYates(_, _)
fisherYates(arr, i) ==
    IF i <= 0 THEN {arr}
    ELSE UNION {fisherYates(swap(arr, i, j), i - 1) : j \in 0..i}

\* A shuffle that permutes its argument instead of a copy of it.
shuffleInPlace(array) ==
    {[array |-> a, result |-> a] : a \in fisherYates(array, Len(array) - 1)}

\* shuffle works on array.slice(): `array` is what the caller's array holds
\* afterwards, `result` the array returned.
shuffle(array) ==
    {[array |-> array, result |-> a] : a \in fisherYates(array, Len(array) - 1)}

\* ------------------------------------------------------------- DNA (genes)
\* period.push() without an argument appends nothing: every row is empty.
createGame(periodCount, positions) == [i \in 1..periodCount |-> <<>>]

\* The loop of generateGamePlacementFromShuffle from period i on.  `array`
\* is the players array, threaded through the shuffles.
RECURSIVE placementFrom(_, _, _, _)
placementFrom(game, array, i, periodCount) ==
    IF i >= periodCount THEN {[array |-> array, game |-> game]}
    ELSE IF \A k \in DOMAIN game[i + 1] : game[i + 1][k] = NULL
         THEN UNION {placementFrom(setAt(game, i + 1, s.result), s.array,
                                   i + 1, periodCount) : s \in shuffle(array)}
         ELSE placementFrom(game, array, i + 1, periodCount)

\* A placement whose rows are cut to the number of positions.
generateGamePlacementCutToSlots(periodCount, players, positions) ==
    IF Len(positions) = 0 THEN {[array |-> players, game |-> <<>>]}
    ELSE {[array |-> g.array,
           game |-> [k \in DOMAIN g.game |->
                        SubSeq(g.game[k], 1, Min(Len(positions), Len(g.game[k])))]] :
             g \in placementFrom(createGame(periodCount, positions), players, 0,
                                 periodCount)}

generateGamePlacementFromShuffle(periodCount, players, positions) ==
    IF Len(positions) = 0 THEN {[array |-> players, game |-> <<>>]}
    ELSE placementFrom(createGame(periodCount, positions), players, 0, periodCount)

\* new DNA(periodCount, players, positions)
newDNA(periodCount, players, positions) ==
    {[array |-> g.array, dna |-> [genes |-> g.game, fitness |-> Zero]] :
        g \in generateGamePlacementFromShuffle(periodCount, players, positions)}

\* DNA.calcFitness: the candidate with its cached fitness set.
calcFitness(dna, players, positions, periodCount) ==
    [dna EXCEPT !.fitness = getGameScoreRatio(dna.genes, players, positions, periodCount)]

\* Math.floor(Math.random() * n)
randomIndex(n) == IF n = 0 THEN {0} ELSE 0..(n - 1)

\* A crossover that takes the row at the midpoint from `this` as well.
crossoverFromMidpoint(this, partner, periodCount, players, positions) ==
    {[array |-> c.array,
      dna |-> [c.dna EXCEPT !.genes =
                  [k \in DOMAIN c.dna.genes |->
                      IF k > Len(this.genes) THEN c.dna.genes[k]
                      ELSE IF k - 1 >= midpoint THEN this.genes[k]
                      ELSE partner.genes[k]]]] :
        c \in newDNA(periodCount, players, positions),
        midpoint \in randomIndex(Len(this.genes))}

\* DNA.crossover: rows after the midpoint from `this`, the others from partner.
crossover(this, partner, periodCount, players, positions) ==
    {[array |-> c.array,
      dna |-> [c.dna EXCEPT !.genes =
                  [k \in DOMAIN c.dna.genes |->
                      IF k > Len(this.genes) THEN c.dna.genes[k]
                      ELSE IF k - 1 > midpoint THEN this.genes[k]
                      ELSE partner.genes[k]]]] :
        c \in newDNA(periodCount, players, positions),
        midpoint \in randomIndex(Len(this.genes))}

\* The loop of DNA.mutate from row i on: each row is kept or reshuffled.
RECURSIVE mutateFrom(_, _, _)
mutateFrom(dna, array, i) ==
    IF i >= Len(dna.genes) THEN {[array |-> array, dna |-> dna]}
    ELSE mutateFrom(dna, array, i + 1)
         \cup UNION {mutateFrom([dna EXCEPT !.genes = setAt(dna.genes, i + 1, s.result)],
                                   s.array, i + 1) :
                        s \in shuffle(array)}

mutate(dna, array) == mutateFrom(dna, array, 0)

\* -------------------------------------------------------------- Population
\* The constructor's loop from index i on: popMax fresh candidates.
RECURSIVE populateFrom(_, _, _, _, _, _)
populateFrom(population, array, i, popMax, periodCount, positions) ==
    IF i >= popMax THEN {[array |-> array, population |-> population]}
    ELSE UNION {populateFrom(Append(population, d.dna), d.array, i + 1, popMax,
                             periodCount, positions) :
                   d \in newDNA(periodCount, array, positions)}

\* Population.calcFitness
populationCalcFitness(population, players, positions, periodCount) ==
    [k \in DOMAIN population |->
        calcFitness(population[k], players, positions, periodCount)]

\* A constructor that builds one candidate fewer than popMax.
newPopulationOneShort(periodCount, popMax, players, positions) ==
    {[array |-> b.array,
      population |-> populationCalcFitness(b.population, b.array, positions, periodCount)] :
        b \in populateFrom(<<>>, players, 0, popMax - 1, periodCount, positions)}

\* new Population(target, MUTATION_RATE, POP_MAX, players, positions), where
\* target.length = periodCount.
newPopulation(periodCount, popMax, players, positions) ==
    {[array |-> b.array,
      population |-> populationCalcFitness(b.population, b.array, positions, periodCount)] :
        b \in populateFrom(<<>>, players, 0, popMax, periodCount, positions)}

\* The maximum scan that opens generate() and evaluate(): the running record
\* (starting at 0) and the 0-based index that holds it, from index i on.
RECURSIVE recordFrom(_, _, _, _)
recordFrom(population, i, index, record) ==
    IF i >= Len(population) THEN [index |-> index, record |-> record]
    ELSE IF RatLess(record, population[i + 1].fitness)
         THEN recordFrom(population, i + 1, i, population[i + 1].fitness)
         ELSE recordFrom(population, i + 1, index, record)

\* One draw r = Math.random() * maxFitness against a candidate of fitness f:
\* r ranges over [0, maxFitness), or is 0 when maxFitness = 0.
canAcceptZero(f, maxFitness) == RatLeq(Zero, f)

canAccept(f, maxFitness) == RatLess(Zero, f)
canReject(f, maxFitness) == RatLeq(f, Zero) \/ RatLess(f, maxFitness)

\* The cap test after a rejected draw.
capReached(attempt) == attempt > ATTEMPT_CAP

\* acceptReject's loop with `attempt` draws rejected so far: the candidate
\* returned (as <<index>>, 1-based, or <<>> for null) and the draws made.
RECURSIVE acceptRejectFrom(_, _, _)
acceptRejectFrom(population, maxFitness, attempt) ==
    {[partner |-> <<k>>, draws |-> attempt + 1] :
        k \in {n \in DOMAIN population : canAccept(population[n].fitness, maxFitness)}}
    \cup
    IF \E n \in DOMAIN population : canReject(population[n].fitness, maxFitness)
    THEN IF capReached(attempt + 1)
         THEN {[partner |-> <<>>, draws |-> attempt + 1]}
         ELSE acceptRejectFrom(population, maxFitness, attempt + 1)
    ELSE {}

acceptReject(population, maxFitness) == acceptRejectFrom(population, maxFitness, 0)

Max(a, b) == IF a > b THEN a ELSE b

\* A fallback to the first candidate of the old population.
fallbackFirst(population, i) == population[1]

\* newPopulation[i] = this.population[i], the fallback of generate().
fallback(population, i) == population[i + 1]

\* What generate() puts at index i (0-based) of newPopulation: a mutated
\* crossover child, or the old candidate at i when a selection failed
\* (`failed`).
childAt(population, maxFitness, i, array, periodCount, positions) ==
    UNION {
        IF a.partner # <<>> /\ b.partner # <<>>
        THEN UNION {{[array |-> m.array, dna |-> m.dna, failed |-> FALSE,
                      draws |-> Max(a.draws, b.draws)] : m \in mutate(c.dna, c.array)} :
                       c \in crossover(population[a.partner[1]], population[b.partner[1]],
                                       periodCount, array, positions)}
        ELSE {[array |-> array, dna |-> fallback(population, i), failed |-> TRUE,
               draws |-> Max(a.draws, b.draws)]} :
        a \in acceptReject(population, maxFitness),
        b \in acceptReject(population, maxFitness)}

\* The loop of generate() from index i on: the candidates it appends to
\* newPopulation.  `draws` is the largest number of draws one acceptReject
\* call has made, `failed` the indices at which a selection returned null.
\* The rest of the loop runs on the players array the iteration at i leaves.
RECURSIVE generateFrom(_, _, _, _, _, _)
generateFrom(population, maxFitness, i, array, periodCount, positions) ==
    IF i >= Len(population)
    THEN {[array |-> array, newPopulation |-> <<>>, draws |-> 0, failed |-> {}]}
    ELSE LET children == childAt(population, maxFitness, i, array, periodCount, positions)
         IN UNION {
                LET rest == generateFrom(population, maxFitness, i + 1, a,
                                         periodCount, positions)
                IN {[array |-> r.array,
                     newPopulation |-> <<c.dna>> \o r.newPopulation,
                     draws |-> Max(c.draws, r.draws),
                     failed |-> IF c.failed THEN {i} \cup r.failed ELSE r.failed] :
                       c \in {d \in children : d.array = a}, r \in rest} :
                a \in {c.array : c \in children}}

\* A generate() that does not call calcFitness() on the new population.
generateWithoutCalcFitness(population, generations, players, positions, periodCount) ==
    LET maxFitness == recordFrom(population, 0, 0, Zero).record
    IN {IF Len(g.newPopulation) > 0
        THEN [array |-> g.array,
              population |-> g.newPopulation,
              generations |-> generations + 1,
              draws |-> g.draws, failed |-> g.failed]
        ELSE [array |-> g.array, population |-> population,
              generations |-> generations, draws |-> g.draws,
              failed |-> g.failed] :
           g \in generateFrom(population, maxFitness, 0, players,
                              periodCount, positions)}

\* Population.generate(): the population, generation counter and players
\* array it leaves.
generate(population, generations, players, positions, periodCount) ==
    LET maxFitness == recordFrom(population, 0, 0, Zero).record
    IN {IF Len(g.newPopulation) > 0
        THEN [array |-> g.array,
              population |-> populationCalcFitness(g.newPopulation, g.array,
                                                   positions, periodCount),
              generations |-> generations + 1,
              draws |-> g.draws, failed |-> g.failed]
        ELSE [array |-> g.array, population |-> population,
              generations |-> generations, draws |-> g.draws,
              failed |-> g.failed] :
           g \in generateFrom(population, maxFitness, 0, players,
                              periodCount, positions)}

\* An evaluation that needs a record above perfectScore to finish.
evaluateAbove(population, finished) ==
    LET scan == recordFrom(population, 0, 0, Zero)
    IN [best |-> IF scan.index + 1 \in DOMAIN population
                 THEN <<population[scan.index + 1]>> ELSE <<>>,
        finished |-> finished \/ RatLess(Rat(perfectScore, 1), scan.record)]

\* Population.evaluate(): best (<<>> when population[index] is undefined) and
\* the finished flag.
evaluate(population, finished) ==
    LET scan == recordFrom(population, 0, 0, Zero)
    IN [best |-> IF scan.index + 1 \in DOMAIN population
                 THEN <<population[scan.index + 1]>> ELSE <<>>,
        finished |-> finished \/ RatLeq(Rat(perfectScore, 1), scan.record)]

\* ------------------------------------------------- generateOptimisedAssignments
\* The early-return test of the entry point.
noLineupPlayersOnly(players, positions) == Len(players) = 0

noLineup(players, positions) == Len(players) = 0 \/ Len(positions) = 0

\* The loop test of the generation loop.
loopTestInclusive(i) == i <= GENERATIONS

loopTestNever(i) == FALSE

loopTest(i) == i < GENERATIONS

\* The number of iterations of the final loop over the positions.
assignmentCountOfPeriod(period, positions) == Len(period)

assignmentCount(period, positions) == Len(positions)

\* player ? player.id : null, for player = period[i] (0-based i).
idAtWrapped(period, i) ==
    IF Len(period) = 0 THEN NULL ELSE period[(i % Len(period)) + 1].id

idAt(period, i) == IF i + 1 \in DOMAIN period THEN period[i + 1].id ELSE NULL

\* The final loop from index i on: assignments[positions[i]] = the id of
\* period[i], or null when the period has no entry i.  A later assignment
\* to the same key replaces the earlier one.
RECURSIVE assignFrom(_, _, _, _)
assignFrom(assignments, period, positions, i) ==
    IF i >= assignmentCount(period, positions) THEN assignments
    ELSE assignFrom((positions[i + 1] :> idAt(period, i)) @@ assignments,
                    period, positions, i + 1)

\* An extraction that maps every slot to null unless the chosen candidate
\* has a positive fitness.
extractPositiveOnly(best, population, positions) ==
    LET chosen == IF best # <<>> THEN best[1] ELSE population[1]
        genes == chosen.genes
    IN IF Len(genes) = 0
       THEN [threw |-> Len(positions) > 0, assignments |-> <<>>]
       ELSE IF RatLess(Zero, chosen.fitness)
       THEN [threw |-> FALSE,
             assignments |-> assignFrom(<<>>, genes[1], positions, 0)]
       ELSE [threw |-> FALSE, assignments |-> [pos \in Range(positions) |-> NULL]]

\* An extraction that always reads the first candidate of the population.
extractFromFirst(best, population, positions) ==
    LET genes == population[1].genes
    IN IF Len(genes) = 0
       THEN [threw |-> Len(positions) > 0, assignments |-> <<>>]
       ELSE [threw |-> FALSE,
             assignments |-> assignFrom(<<>>, genes[1], positions, 0)]

\* Lines 367-377: the best candidate (or the first one), its period 0 and
\* the mapping read from it; `threw` when period[i] reads from undefined.
extract(best, population, positions) ==
    LET chosen == IF best # <<>> THEN best[1] ELSE population[1]
        genes == chosen.genes
    IN IF Len(genes) = 0
       THEN [threw |-> Len(positions) > 0, assignments |-> <<>>]
       ELSE [threw |-> FALSE,
             assignments |-> assignFrom(<<>>, genes[1], positions, 0)]

\* -------------------------------------------------- genes as references
\* Here a candidate's genes are the ADDRESSES of its round arrays: heap[a]
\* is the array at address a, and two candidates that hold the same address
\* share the array.
deref(h, genes) == [k \in DOMAIN genes |-> h[genes[k]]]

\* The heap with one more array.
push(h, row) == [k \in 1..(Len(h) + 1) |-> IF k <= Len(h) THEN h[k] ELSE row]

\* The heap with every round array of the rows appended.
RECURSIVE pushAll(_, _)
pushAll(h, rows) ==
    IF Len(rows) = 0 THEN h
    ELSE pushAll(push(h, rows[1]), [k \in 1..(Len(rows) - 1) |-> rows[k + 1]])

\* new DNA(...): its round arrays are newly allocated.
newDNARef(h, periodCount, players, positions) ==
    {[heap |-> pushAll(h, d.dna.genes),
      dna |-> [genes |-> [k \in 1..Len(d.dna.genes) |-> Len(h) + k],
               fitness |-> Zero]] :
        d \in newDNA(periodCount, players, positions)}

\* A crossover on references that takes the row at the midpoint from `this`.
crossoverRefFromMidpoint(this, partner, h, periodCount, players, positions) ==
    {[heap |-> c.heap,
      dna |-> [c.dna EXCEPT !.genes =
                  [k \in DOMAIN c.dna.genes |->
                      IF k > Len(this.genes) THEN c.dna.genes[k]
                      ELSE IF k - 1 >= midpoint THEN this.genes[k]
                      ELSE partner.genes[k]]]] :
        c \in newDNARef(h, periodCount, players, positions),
        midpoint \in randomIndex(Len(this.genes))}

\* DNA.crossover: child.genes[i] = this.genes[i] or partner.genes[i] copies
\* the reference to the round array.
crossoverRef(this, partner, h, periodCount, players, positions) ==
    {[heap |-> c.heap,
      dna |-> [c.dna EXCEPT !.genes =
                  [k \in DOMAIN c.dna.genes |->
                      IF k > Len(this.genes) THEN c.dna.genes[k]
                      ELSE IF k - 1 > midpoint THEN this.genes[k]
                      ELSE partner.genes[k]]]] :
        c \in newDNARef(h, periodCount, players, positions),
        midpoint \in randomIndex(Len(this.genes))}

\* A mutation that writes the shuffled players into the round array the
\* candidate holds at i.
mutateRowInPlace(dna, h, i, row) ==
    [heap |-> setAt(h, dna.genes[i + 1], row), dna |-> dna]

\* this.genes[i] = shuffle(this.players): the candidate holds a new array
\* at i.
mutateRow(dna, h, i, row) ==
    [heap |-> push(h, row),
     dna |-> [dna EXCEPT !.genes = setAt(dna.genes, i + 1, Len(h) + 1)]]

\* The loop of DNA.mutate from row i on.
RECURSIVE mutateRefFrom(_, _, _, _)
mutateRefFrom(dna, h, array, i) ==
    IF i >= Len(dna.genes) THEN {[heap |-> h, dna |-> dna]}
    ELSE mutateRefFrom(dna, h, array, i + 1)
         \cup UNION {LET m == mutateRow(dna, h, i, s.result)
                     IN mutateRefFrom(m.dna, m.heap, array, i + 1) :
                        s \in shuffle(array)}

\* DNA.calcFitness on a candidate that holds references.
calcFitnessRef(dna, h, players, positions, periodCount) ==
    [dna EXCEPT !.fitness =
        getGameScoreRatio(deref(h, dna.genes), players, positions, periodCount)]

\* The round arrays of a population, one after the other, and the
\* population holding their addresses.
rowsOf(population) ==
    [a \in 1..SumSeq([k \in DOMAIN population |-> Len(population[k].genes)]) |->
        LET k == CHOOSE n \in DOMAIN population :
                     /\ SumSeq([m \in 1..(n - 1) |-> Len(population[m].genes)]) < a
                     /\ a <= SumSeq([m \in 1..n |-> Len(population[m].genes)])
        IN population[k].genes[a - SumSeq([m \in 1..(k - 1) |-> Len(population[m].genes)])]]

refsOf(population) ==
    [k \in DOMAIN population |->
        [genes |-> [t \in 1..Len(population[k].genes) |->
                       SumSeq([m \in 1..(k - 1) |-> Len(population[m].genes)]) + t],
         fitness |-> population[k].fitness]]

\* ------------------------------------------------------------------- state
VARIABLES
    players,       \* the caller's players array
    positions,     \* the caller's positions array
    periodCount,   \* the periodCount argument
    pc,            \* where the call is: idle, generate, evaluate, extract, done, thrown
    i,             \* the generation loop's counter
    population,    \* Population.population
    generations,   \* Population.generations
    finished,      \* Population.finished
    best,          \* Population.best: <<>> (null) or <<candidate>>
    draws,         \* most draws made by one acceptReject call of the last generate()
    fallbacks,     \* indices at which the last generate() kept the old candidate
    child,         \* crossover specification: <<>> or <<parents' indices, child>>
    heap,          \* reference specification: the round arrays, by address
    assignments,   \* the mapping returned
    playerScores,  \* score-list specification: the argument
    distribution,  \* score-list specification: <<>> or <<the value returned>>
    kv,            \* Deno KV, the "players" namespace: id -> <<>> or <<value>>
    requests       \* the requests the server is handling, by handle

vars == <<players, positions, periodCount, pc, i, population, generations,
          finished, best, draws, fallbacks, child, heap, assignments,
          playerScores, distribution, kv, requests>>

inputs == <<players, positions, periodCount>>
popVars == <<population, generations, finished, best, draws, fallbacks, child, heap, i>>
scoreVars == <<playerScores, distribution>>
serverVars == <<kv, requests>>
gaVars == <<players, positions, periodCount, pc, i, population, generations,
            finished, best, draws, fallbacks, child, heap, assignments,
            playerScores, distribution>>

\* Preference lists of at most n of the given names.  indexOf reads only the
\* first occurrence of a name, so lists without a repeated name give every
\* rank a list with repetitions gives.
PrefLists(names, n) ==
    {s \in SeqsUpTo(names, n) : \A a, b \in DOMAIN s : a # b => s[a] # s[b]}

\* The k-th player of a list has one of the first k ids and names (lists that
\* differ only by a renaming of ids or names behave alike).
PlayerAt(k, prefs) ==
    [id : {Ids[n] : n \in 1..k}, name : {Names[n] : n \in 1..k}, pref : prefs]

PlayerLists(prefs) ==
    UNION {{s \in [1..m -> PlayerAt(m, prefs)] :
                \A k \in 1..m : s[k] \in PlayerAt(k, prefs)} : m \in 0..MaxPlayers}

SlotNames == {PositionNames[n] : n \in 1..MaxPositions}

\* Position lists, a name listed twice included.
PositionLists == SeqsUpTo(SlotNames, MaxPositions)

Init ==
    /\ players \in PlayerLists(PrefLists(SlotNames, MaxPref))
    /\ positions \in PositionLists
    /\ periodCount \in 0..MaxPeriods
    /\ pc = "idle"
    /\ i = 0
    /\ population = <<>>
    /\ generations = 0
    /\ finished = FALSE
    /\ best = <<>>
    /\ draws = 0
    /\ fallbacks = {}
    /\ child = <<>>
    /\ heap = <<>>
    /\ assignments = <<>>
    /\ playerScores = <<>>
    /\ distribution = <<>>
    /\ kv = <<>>
    /\ requests = <<>>

\* ----------------------------------------------------------------- actions
\* Lines 343-359: the early return, or the construction of the population.
Call ==
    /\ pc = "idle"
    /\ IF noLineup(players, positions)
       THEN /\ assignments' = [pos \in Range(positions) |-> NULL]
            /\ pc' = "done"
            /\ UNCHANGED <<players, popVars>>
       ELSE \E b \in newPopulation(periodCount, POP_MAX, players, positions) :
            /\ players' = b.array
            /\ population' = b.population
            /\ generations' = 0
            /\ finished' = FALSE
            /\ best' = <<>>
            /\ i' = 0
            /\ pc' = IF loopTest(0) THEN "generate" ELSE "extract"
            /\ UNCHANGED <<draws, fallbacks, child, heap, assignments>>
    /\ UNCHANGED <<positions, periodCount, scoreVars, serverVars>>

\* Line 361: population.generate()
Generate ==
    /\ pc = "generate"
    /\ \E g \in generate(population, generations, players, positions, periodCount) :
        /\ players' = g.array
        /\ population' = g.population
        /\ generations' = g.generations
        /\ draws' = g.draws
        /\ fallbacks' = g.failed
    /\ pc' = "evaluate"
    /\ UNCHANGED <<positions, periodCount, i, finished, best, child, heap, assignments,
                   scoreVars, serverVars>>

\* An evaluation step that keeps the previous best when it is fitter than
\* every candidate of the present generation.
EvaluateKeepingBest ==
    /\ pc = "evaluate"
    /\ LET e == evaluate(population, finished)
       IN /\ best' = IF /\ best # <<>>
                        /\ e.best # <<>>
                        /\ RatLess(e.best[1].fitness, best[1].fitness)
                     THEN best ELSE e.best
          /\ finished' = e.finished
          /\ IF e.finished
             THEN i' = i /\ pc' = "extract"
             ELSE i' = i + 1 /\ pc' = IF loopTest(i + 1) THEN "generate" ELSE "extract"
    /\ UNCHANGED <<inputs, population, generations, draws, fallbacks, child, heap,
                   assignments, scoreVars, serverVars>>

\* Lines 362-363 and the loop's i++ and test: population.evaluate(), then
\* break, iterate again or leave the loop.
Evaluate ==
    /\ pc = "evaluate"
    /\ LET e == evaluate(population, finished)
       IN /\ best' = e.best
          /\ finished' = e.finished
          /\ IF e.finished
             THEN i' = i /\ pc' = "extract"
             ELSE i' = i + 1 /\ pc' = IF loopTest(i + 1) THEN "generate" ELSE "extract"
    /\ UNCHANGED <<inputs, population, generations, draws, fallbacks, child, heap,
                   assignments, scoreVars, serverVars>>

\* Lines 367-377: read the mapping from the best candidate and return it.
Return ==
    /\ pc = "extract"
    /\ LET r == extract(best, population, positions)
       IN /\ pc' = IF r.threw THEN "thrown" ELSE "done"
          /\ assignments' = r.assignments
    /\ UNCHANGED <<inputs, popVars, scoreVars, serverVars>>

\* The caller calls again with the same arguments; the previous call's
\* population is gone.
NewCall ==
    /\ pc \in {"done", "thrown"}
    /\ pc' = "idle"
    /\ i' = 0
    /\ population' = <<>>
    /\ generations' = 0
    /\ finished' = FALSE
    /\ best' = <<>>
    /\ draws' = 0
    /\ fallbacks' = {}
    /\ child' = <<>>
    /\ heap' = <<>>
    /\ assignments' = <<>>
    /\ UNCHANGED <<inputs, scoreVars, serverVars>>

Next == Call \/ Generate \/ Evaluate \/ Return \/ NewCall

Spec == Init /\ [][Next]_vars

\* ------------------------------------------- score-list specification
ScoreValues == (0 - 1)..MaxScore

InitScores ==
    /\ players = <<>>
    /\ positions = <<>>
    /\ periodCount = 1
    /\ pc = "idle"
    /\ i = 0
    /\ population = <<>>
    /\ generations = 0
    /\ finished = FALSE
    /\ best = <<>>
    /\ draws = 0
    /\ fallbacks = {}
    /\ child = <<>>
    /\ heap = <<>>
    /\ assignments = <<>>
    /\ playerScores \in SeqsUpTo(ScoreValues, MaxScores)
    /\ distribution = <<>>
    /\ kv = <<>>
    /\ requests = <<>>

\* A call of getGameScoreDistribution(playerScores).
Distribution ==
    /\ distribution = <<>>
    /\ distribution' = <<getGameScoreDistribution(playerScores)>>
    /\ UNCHANGED <<inputs, pc, popVars, assignments, playerScores, serverVars>>

NextScores == Distribution

ScoreSpec == InitScores /\ [][NextScores]_vars

\* ---------------------------------------------- evaluator specification
\* Preference lists here may also name a slot that is not in the slot list
\* and may be longer than the slot list.
EvalPrefs == PrefLists(SlotNames \cup {PositionNames[MaxPositions + 1]}, MaxPrefEval)

\* One freshly constructed candidate for any players, positions and period
\* count, not yet evaluated.
InitFitness ==
    /\ players \in PlayerLists(EvalPrefs)
    /\ positions \in PositionLists
    /\ periodCount \in 0..MaxPeriods
    /\ pc = "fitness"
    /\ i = 0
    /\ population \in {<<d.dna>> : d \in newDNA(periodCount, players, positions)}
    /\ generations = 0
    /\ finished = FALSE
    /\ best = <<>>
    /\ draws = 0
    /\ fallbacks = {}
    /\ child = <<>>
    /\ heap = <<>>
    /\ assignments = <<>>
    /\ playerScores = <<>>
    /\ distribution = <<>>
    /\ kv = <<>>
    /\ requests = <<>>

\* Population.calcFitness() on that candidate.
CalcFitness ==
    /\ pc = "fitness"
    /\ population' = populationCalcFitness(population, players, positions, periodCount)
    /\ pc' = "scored"
    /\ UNCHANGED <<inputs, i, generations, finished, best, draws, fallbacks, child, heap,
                   assignments, scoreVars, serverVars>>

NextFitness == CalcFitness

FitnessSpec == InitFitness /\ [][NextFitness]_vars

\* --------------------------------------------- evaluation specification
\* A population as generate() leaves it (POP_MAX candidates with their
\* fitness computed), for players whose preference lists are those of the
\* evaluator specification, about to be evaluated.
InitEvaluate ==
    /\ players \in PlayerLists(EvalPrefs)
    /\ positions \in PositionLists
    /\ periodCount \in 0..MaxPeriods
    /\ ~noLineup(players, positions)
    /\ pc = "evaluate"
    /\ i = 0
    /\ population \in {b.population :
                          b \in newPopulation(periodCount, POP_MAX, players, positions)}
    /\ generations = 1
    /\ finished = FALSE
    /\ best = <<>>
    /\ draws = 0
    /\ fallbacks = {}
    /\ child = <<>>
    /\ heap = <<>>
    /\ assignments = <<>>
    /\ playerScores = <<>>
    /\ distribution = <<>>
    /\ kv = <<>>
    /\ requests = <<>>

NextEvaluate == Evaluate

EvaluateSpec == InitEvaluate /\ [][NextEvaluate]_vars

\* ---------------------------------------------- crossover specification
\* A freshly constructed population with its fitness computed, inside
\* generate().
InitCrossover ==
    /\ players \in PlayerLists(PrefLists(SlotNames, MaxPref))
    /\ positions \in PositionLists
    /\ periodCount \in 0..MaxPeriods
    /\ ~noLineup(players, positions)
    /\ pc = "generate"
    /\ i = 0
    /\ population \in {b.population :
                          b \in newPopulation(periodCount, POP_MAX, players, positions)}
    /\ generations = 0
    /\ finished = FALSE
    /\ best = <<>>
    /\ draws = 0
    /\ fallbacks = {}
    /\ child = <<>>
    /\ heap = <<>>
    /\ assignments = <<>>
    /\ playerScores = <<>>
    /\ distribution = <<>>
    /\ kv = <<>>
    /\ requests = <<>>

\* partnerA.crossover(partnerB) for two candidates acceptReject can return
\* (it returns candidates of positive fitness only).
Crossover ==
    /\ pc = "generate"
    /\ child = <<>>
    /\ \E a, b \in DOMAIN population :
          /\ canAccept(population[a].fitness, recordFrom(population, 0, 0, Zero).record)
          /\ canAccept(population[b].fitness, recordFrom(population, 0, 0, Zero).record)
          /\ \E c \in crossover(population[a], population[b], periodCount,
                                 players, positions) :
                /\ players' = c.array
                /\ child' = <<[this |-> a, partner |-> b, dna |-> c.dna]>>
    /\ UNCHANGED <<positions, periodCount, pc, i, population, generations, finished,
                   best, draws, fallbacks, heap, assignments, scoreVars, serverVars>>

NextCrossover == Crossover

CrossoverSpec == InitCrossover /\ [][NextCrossover]_vars

\* ---------------------------------------------- reference specification
\* A freshly constructed population with its fitness computed, inside
\* generate(); every round array has an address of its own.
InitRef ==
    /\ players \in PlayerLists(PrefLists(SlotNames, MaxPref))
    /\ positions \in PositionLists
    /\ periodCount \in 0..MaxPeriods
    /\ ~noLineup(players, positions)
    /\ pc = "crossover"
    /\ i = 0
    /\ \E b \in newPopulation(periodCount, POP_MAX, players, positions) :
          /\ population = refsOf(b.population)
          /\ heap = rowsOf(b.population)
    /\ generations = 0
    /\ finished = FALSE
    /\ best = <<>>
    /\ draws = 0
    /\ fallbacks = {}
    /\ child = <<>>
    /\ assignments = <<>>
    /\ playerScores = <<>>
    /\ distribution = <<>>
    /\ kv = <<>>
    /\ requests = <<>>

\* const child = partnerA.crossover(partnerB), for two candidates
\* acceptReject can return.
CrossoverRef ==
    /\ pc = "crossover"
    /\ \E a, b \in DOMAIN population :
          /\ canAccept(population[a].fitness, recordFrom(population, 0, 0, Zero).record)
          /\ canAccept(population[b].fitness, recordFrom(population, 0, 0, Zero).record)
          /\ \E c \in crossoverRef(population[a], population[b], heap, periodCount,
                                    players, positions) :
                /\ heap' = c.heap
                /\ child' = <<[this |-> a, partner |-> b, dna |-> c.dna]>>
    /\ pc' = "mutate"
    /\ UNCHANGED <<inputs, i, population, generations, finished, best, draws,
                   fallbacks, assignments, scoreVars, serverVars>>

\* child.mutate(this.mutationRate)
MutateRef ==
    /\ pc = "mutate"
    /\ \E m \in mutateRefFrom(child[1].dna, heap, players, 0) :
          /\ heap' = m.heap
          /\ child' = <<[child[1] EXCEPT !.dna = m.dna]>>
    /\ pc' = "fitness"
    /\ UNCHANGED <<inputs, i, population, generations, finished, best, draws,
                   fallbacks, assignments, scoreVars, serverVars>>

\* calcFitness() on the child and on the candidates of the population.
CalcFitnessRef ==
    /\ pc = "fitness"
    /\ child' = <<[child[1] EXCEPT !.dna =
                     calcFitnessRef(child[1].dna, heap, players, positions, periodCount)]>>
    /\ population' = [k \in DOMAIN population |->
                         calcFitnessRef(population[k], heap, players, positions,
                                        periodCount)]
    /\ pc' = "bred"
    /\ UNCHANGED <<inputs, i, generations, finished, best, draws, fallbacks, heap,
                   assignments, scoreVars, serverVars>>

NextRef == CrossoverRef \/ MutateRef \/ CalcFitnessRef

RefSpec == InitRef /\ [][NextRef]_vars

\* ---------------------------------------------- placement specification
\* One round over MaxRoster slots with pairwise distinct names.
RosterSlots == SubSeq(PositionNames, 1, MaxRoster)

\* The k-th player ranks slot k first (any input in which every player can
\* get a first choice is such an input after a renaming of the slots) and
\* then no other slot, or two other slots.
RosterPrefs(k) ==
    {<<PositionNames[k]>> \o t :
        t \in {s \in PrefLists(Range(RosterSlots) \ {PositionNames[k]}, 2) : Len(s) # 1}}

\* The names of a roster: all different, or shared by two players each.
RosterNames ==
    {[k \in 1..MaxRoster |-> Names[k]],
     [k \in 1..MaxRoster |-> Names[(k + 1) \div 2]]}

\* The rosters of m players with the names nm.
RECURSIVE RostersOf(_, _)
RostersOf(m, nm) ==
    IF m = 0 THEN {<<>>}
    ELSE {Append(r, [id |-> Ids[m], name |-> nm[m], pref |-> p]) :
             r \in RostersOf(m - 1, nm), p \in RosterPrefs(m)}

Rosters == UNION {RostersOf(m, nm) : m \in 0..MaxRoster, nm \in RosterNames}

\* One freshly constructed one-round candidate for a roster, not yet
\* evaluated.
InitPlacement ==
    /\ players \in Rosters
    /\ positions = RosterSlots
    /\ periodCount = 1
    /\ pc = "fitness"
    /\ i = 0
    /\ population \in {<<d.dna>> : d \in newDNA(periodCount, players, positions)}
    /\ generations = 0
    /\ finished = FALSE
    /\ best = <<>>
    /\ draws = 0
    /\ fallbacks = {}
    /\ child = <<>>
    /\ heap = <<>>
    /\ assignments = <<>>
    /\ playerScores = <<>>
    /\ distribution = <<>>
    /\ kv = <<>>
    /\ requests = <<>>

PlacementSpec == InitPlacement /\ [][NextFitness]_vars

\* ------------------------------------------------------------ HTTP server
\* Record ids that clients name, and the ids crypto.randomUUID() can return.
RecordIds == {"r1", "r2"}
UUIDs == {"u1"}

\* The keys ["players", id] of the store.
Keys == RecordIds \cup UUIDs

\* JSON values: a string or a number, by its text.
jsonString(text) == [type |-> "string", text |-> text]
jsonNumber(text) == [type |-> "number", text |-> text]

\* Player objects without an id: JSON objects with a name.
Players == {[k \in {"name"} |-> n] : n \in {jsonString("v1"), jsonString("v2")}}

\* Request bodies: a player object, possibly with an id that is a record id,
\* the empty string or a number.
Bodies ==
    LET ids == {jsonString(id) : id \in RecordIds}
                   \cup {jsonString(""), jsonNumber("7")}
    IN  Players
            \cup {[k \in {"id", "name"} |-> IF k = "id" THEN d ELSE p["name"]] :
                       d \in ids, p \in Players}

\* The object with its id field left in place.
withId(data) == data

\* const { id: _, ...player } = data: the object without its id field.
withoutId(data) == [k \in DOMAIN data \ {"id"} |-> data[k]]

\* playerId of router.post("/players"): the id of the body when it is a
\* non-empty string, otherwise the uuid that crypto.randomUUID() returned.
playerId(data, uuid) ==
    IF "id" \in DOMAIN data /\ data["id"].type = "string" /\ data["id"].text # ""
    THEN data["id"].text
    ELSE uuid

\* What kv.get returns as entry.value: <<>> (null) or <<the stored value>>;
\* the stored values are player objects without an id.
Entries == {<<>>} \cup {<<p>> : p \in Players}

\* A request handle that holds no request.
Idle ==
    [method |-> "none", id |-> "none", body |-> "none", header |-> <<>>,
     pc |-> "idle", status |-> 0, message |-> "none"]

\* The request at handle r becomes q.
handle(r, q) == requests' = setAt(requests, r, q)

\* A client sends PUT /players/:id with a JSON body, DELETE /players/:id,
\* or POST /players with a JSON body.
Arrive(r) ==
    /\ requests[r].pc = "idle"
    /\ \/ \E id \in RecordIds :
             \/ \E b \in Bodies :
                   handle(r, [Idle EXCEPT !.method = "PUT", !.id = id,
                                          !.body = b, !.pc = "get"])
             \/ handle(r, [Idle EXCEPT !.method = "DELETE", !.id = id,
                                       !.pc = "get"])
       \/ \E b \in Bodies :
             handle(r, [Idle EXCEPT !.method = "POST", !.body = b, !.pc = "set"])
    /\ UNCHANGED <<kv, gaVars>>

\* router.post("/players"): the id is the body's or a fresh uuid, the body
\* without its id is stored under it with no kv.get before, and the
\* response has status 201.  (id of the request is the id of the response.)
PostSet(r) ==
    /\ requests[r].method = "POST"
    /\ requests[r].pc = "set"
    /\ \E uuid \in UUIDs :
          LET id == playerId(requests[r].body, uuid)
          IN  /\ kv' = [kv EXCEPT ![id] = <<withoutId(requests[r].body)>>]
              /\ handle(r, [requests[r] EXCEPT !.id = id, !.status = 201,
                                                !.pc = "done"])
    /\ UNCHANGED gaVars

\* router.put("/players/:id") up to its first await: kv.get, then 404 when
\* the entry has no value.
PutGet(r) ==
    /\ requests[r].method = "PUT"
    /\ requests[r].pc = "get"
    /\ IF kv[requests[r].id] = <<>>
       THEN handle(r, [requests[r] EXCEPT !.status = 404,
                                          !.message = "Player not found",
                                          !.pc = "done"])
       ELSE handle(r, [requests[r] EXCEPT !.pc = "set"])
    /\ UNCHANGED <<kv, gaVars>>

\* router.put("/players/:id") after kv.get and body.value have resolved:
\* kv.set, then the response (status 200 by default).
PutSet(r) ==
    /\ requests[r].method = "PUT"
    /\ requests[r].pc = "set"
    /\ kv' = [kv EXCEPT ![requests[r].id] = <<withoutId(requests[r].body)>>]
    /\ handle(r, [requests[r] EXCEPT !.status = 200, !.pc = "done"])
    /\ UNCHANGED gaVars

\* router.delete("/players/:id") up to its first await: kv.get, then 404
\* when the entry has no value.
DeleteGet(r) ==
    /\ requests[r].method = "DELETE"
    /\ requests[r].pc = "get"
    /\ IF kv[requests[r].id] = <<>>
       THEN handle(r, [requests[r] EXCEPT !.status = 404,
                                          !.message = "Player not found",
                                          !.pc = "done"])
       ELSE handle(r, [requests[r] EXCEPT !.pc = "delete"])
    /\ UNCHANGED <<kv, gaVars>>

\* router.delete("/players/:id") after kv.get has resolved: kv.delete, 204.
DeleteDelete(r) ==
    /\ requests[r].method = "DELETE"
    /\ requests[r].pc = "delete"
    /\ kv' = [kv EXCEPT ![requests[r].id] = <<>>]
    /\ handle(r, [requests[r] EXCEPT !.status = 204, !.pc = "done"])
    /\ UNCHANGED gaVars

\* The response has been sent; the handle is free again.
Respond(r) ==
    /\ requests[r].pc = "done"
    /\ handle(r, Idle)
    /\ UNCHANGED <<kv, gaVars>>

\* The server with any stored records and no request yet.
InitStore ==
    /\ players = <<>>
    /\ positions = <<>>
    /\ periodCount = 1
    /\ pc = "idle"
    /\ i = 0
    /\ population = <<>>
    /\ generations = 0
    /\ finished = FALSE
    /\ best = <<>>
    /\ draws = 0
    /\ fallbacks = {}
    /\ child = <<>>
    /\ heap = <<>>
    /\ assignments = <<>>
    /\ playerScores = <<>>
    /\ distribution = <<>>
    /\ kv \in [Keys -> Entries]
    /\ requests = [r \in 1..MaxRequests |-> Idle]

NextStore ==
    \E r \in 1..MaxRequests :
        \/ Arrive(r)
        \/ PutGet(r)
        \/ PutSet(r)
        \/ PostSet(r)
        \/ DeleteGet(r)
        \/ DeleteDelete(r)
        \/ Respond(r)

StoreSpec == InitStore /\ [][NextStore]_vars

\* --------------------------------------------------------- GET /protected
\* A string is a sequence of pieces: SP is one space character, every other
\* piece a non-empty run of characters without a space.  Neighbouring
\* pieces other than SP form one longer word.
SP == " "
HeaderPieces == {SP, "Bearer", "bearer", "BEARER", "Basic", "t1", "t2"}

\* The Authorization header: <<>> (no header, null) or <<string>>.
Headers == {<<>>} \cup {<<h>> : h \in SeqsUpTo(HeaderPieces, MaxHeader)}

\* String.prototype.split(" "): the words between the spaces, empty words
\* included.
RECURSIVE split(_)
split(str) ==
    IF \A k \in DOMAIN str : str[k] # SP THEN <<str>>
    ELSE LET k == CHOOSE n \in DOMAIN str :
                      str[n] = SP /\ \A m \in 1..(n - 1) : str[m] # SP
         IN <<SubSeq(str, 1, k - 1)>> \o split(SubSeq(str, k + 1, Len(str)))

\* String.prototype.toLowerCase
toLowerCase(str) ==
    [k \in DOMAIN str |->
        CASE str[k] \in {"Bearer", "BEARER"} -> "bearer"
          [] str[k] = "Basic" -> "basic"
          [] OTHER -> str[k]]

\* An extraction that does not look at the scheme.
extractBearerTokenAnyScheme(authHeader) ==
    IF authHeader = <<>> \/ authHeader[1] = <<>> THEN <<>>
    ELSE LET parts == split(authHeader[1])
         IN IF Len(parts) # 2 THEN <<>> ELSE <<parts[2]>>

\* extractBearerToken: <<>> (undefined) or <<token>>.
extractBearerToken(authHeader) ==
    IF authHeader = <<>> \/ authHeader[1] = <<>> THEN <<>>
    ELSE LET parts == split(authHeader[1])
         IN IF Len(parts) # 2 THEN <<>>
            ELSE IF toLowerCase(parts[1]) = <<"bearer">> THEN <<parts[2]>>
            ELSE <<>>

\* The tokens whose signature and expiry djwt's verify accepts at present.
ValidTokens == {<<"t1">>}

\* verifyToken: true when verify resolves, false when it throws.
verifyToken(token) == token \in ValidTokens

Granted == "Access granted: you are authorized"

\* A client sends GET /protected, with or without an Authorization header.
ArriveProtected(r) ==
    /\ requests[r].pc = "idle"
    /\ \E h \in Headers :
          handle(r, [Idle EXCEPT !.method = "GET /protected", !.header = h,
                                 !.pc = "extract"])
    /\ UNCHANGED <<kv, gaVars>>

\* router.get("/protected") up to its await: 401 when the extracted token
\* is undefined or the empty string.
Protected(r) ==
    /\ requests[r].method = "GET /protected"
    /\ requests[r].pc = "extract"
    /\ LET token == extractBearerToken(requests[r].header)
       IN IF token = <<>> \/ token[1] = <<>>
          THEN handle(r, [requests[r] EXCEPT
                              !.status = 401,
                              !.message = "Authorization header missing or malformed",
                              !.pc = "done"])
          ELSE handle(r, [requests[r] EXCEPT !.pc = "verify"])
    /\ UNCHANGED <<kv, gaVars>>

\* router.get("/protected") after verifyToken has resolved.
Verified(r) ==
    /\ requests[r].method = "GET /protected"
    /\ requests[r].pc = "verify"
    /\ IF verifyToken(extractBearerToken(requests[r].header)[1])
       THEN handle(r, [requests[r] EXCEPT !.status = 200, !.message = Granted,
                                          !.pc = "done"])
       ELSE handle(r, [requests[r] EXCEPT !.status = 401,
                                          !.message = "Invalid or expired token",
                                          !.pc = "done"])
    /\ UNCHANGED <<kv, gaVars>>

\* The server handling one GET /protected request at a time (the handler
\* shares no state with other requests).
InitAuth ==
    /\ players = <<>>
    /\ positions = <<>>
    /\ periodCount = 1
    /\ pc = "idle"
    /\ i = 0
    /\ population = <<>>
    /\ generations = 0
    /\ finished = FALSE
    /\ best = <<>>
    /\ draws = 0
    /\ fallbacks = {}
    /\ child = <<>>
    /\ heap = <<>>
    /\ assignments = <<>>
    /\ playerScores = <<>>
    /\ distribution = <<>>
    /\ kv = <<>>
    /\ requests = <<Idle>>

NextAuth ==
    \E r \in DOMAIN requests :
        \/ ArriveProtected(r)
        \/ Protected(r)
        \/ Verified(r)
        \/ Respond(r)

AuthSpec == InitAuth /\ [][NextAuth]_vars

\* ================================================================== claims
Returned == pc = "done"
Ended == pc \in {"done", "thrown"}

AssignedSlots == {k \in DOMAIN assignments : assignments[k] # NULL}
UnassignedSlots == {k \in DOMAIN assignments : assignments[k] = NULL}

DistinctIds == \A a, b \in DOMAIN players : a # b => players[a].id # players[b].id
DistinctSlotNames == \A a, b \in DOMAIN positions : a # b => positions[a] # positions[b]

\* No player's preference list names a slot of the slot list.
NobodyRanksASlot ==
    \A p \in DOMAIN players : \A k \in DOMAIN positions :
        indexOf(players[p].pref, positions[k]) = -1

\* C1: for non-empty players and positions, the keys of the returned mapping
\* are exactly the input slot names (a mapping has one entry per key).
C1_KeysAreTheSlotNames ==
    (Returned /\ Len(players) > 0 /\ Len(positions) > 0)
        => DOMAIN assignments = Range(positions)

\* C1 witness: a call returned for one player and two different slots.
C1_Witness ==
    /\ Returned
    /\ Len(players) = 1
    /\ Len(positions) = 2
    /\ positions[1] # positions[2]
    /\ generations = GENERATIONS

\* C2: with at least as many players as slots and distinct player ids, every
\* slot of the returned mapping holds a player id and no id is held twice.
C2_AllAssignedNoIdTwice ==
    (Returned /\ Len(players) >= Len(positions) /\ DistinctIds)
        => /\ \A k \in DOMAIN assignments : assignments[k] # NULL
           /\ \A k, m \in DOMAIN assignments :
                  k # m => assignments[k] # assignments[m]

\* C2 witness: a call returned for two players with distinct ids and two
\* different slots.
C2_Witness ==
    /\ Returned
    /\ Len(players) = 2
    /\ DistinctIds
    /\ Len(positions) = 2
    /\ positions[1] # positions[2]
    /\ Cardinality(AssignedSlots) = 2

\* C3 as stated: with fewer players than slots, exactly participant-count
\* slots of the returned mapping hold an id and exactly slot-count minus
\* participant-count hold null.
C3_Original ==
    (Returned /\ Len(players) < Len(positions))
        => /\ Cardinality(AssignedSlots) = Len(players)
           /\ Cardinality(UnassignedSlots) = Len(positions) - Len(players)

\* C3 amended: the same, for slot lists whose names are pairwise distinct
\* (a name listed twice is one key of the mapping, written twice).
C3_FewerPlayersThanDistinctSlots ==
    (Returned /\ Len(players) < Len(positions) /\ DistinctSlotNames)
        => /\ Cardinality(AssignedSlots) = Len(players)
           /\ Cardinality(UnassignedSlots) = Len(positions) - Len(players)

\* C3 witness: one player, two different slots, one of them assigned.
C3_Witness ==
    /\ Returned
    /\ Len(players) = 1
    /\ Len(positions) = 2
    /\ DistinctSlotNames
    /\ Cardinality(AssignedSlots) = 1
    /\ Cardinality(UnassignedSlots) = 1

\* C4: the entry point never raises an error, whatever the players, the
\* positions and the round count (any integer >= 0).
C4_NeverThrows == pc # "thrown"

\* C5: the fitness the evaluator computes is non-negative, whatever the
\* players, positions and preference lists.
C5_FitnessNonNegative ==
    \A k \in DOMAIN population : RatLeq(Zero, population[k].fitness)

\* C6: with no players or no positions, the call returns every slot name
\* mapped to null, builds no population and runs no generation step.
C6_EmptyInputNoSearch ==
    (Len(players) = 0 \/ Len(positions) = 0)
        => /\ pc \in {"idle", "done"}
           /\ population = <<>>
           /\ generations = 0
           /\ best = <<>>
           /\ Returned =>
                  /\ DOMAIN assignments = Range(positions)
                  /\ \A k \in DOMAIN assignments : assignments[k] = NULL

\* C6 witness: a call returned for no players and two slots.
C6_Witness ==
    /\ Returned
    /\ Len(players) = 0
    /\ Len(positions) = 2
    /\ UnassignedSlots = Range(positions)

\* C7: no step of a call, and no later call, changes the caller's players
\* array (elements, order, preference lists) or positions array.
C7_InputsUnchanged == [][players' = players /\ positions' = positions]_vars

\* C7 witness: a call that shuffled two players in every generation returned.
C7_Witness ==
    /\ Returned
    /\ Len(players) = 2
    /\ generations = GENERATIONS
    /\ \E k \in DOMAIN population : population[k].genes[1] # players

\* What is left of a call: a natural number that every step of the call
\* lowers.
Rank ==
    CASE pc = "idle" -> 2 * GENERATIONS + 3
      [] pc = "generate" -> 2 * (GENERATIONS - i) + 1
      [] pc = "evaluate" -> 2 * (GENERATIONS - i)
      [] pc = "extract" -> 1
      [] OTHER -> 0

\* The step the call is about to take has an outcome: the constructor and
\* generate() (with its acceptReject loops) come back; evaluate() and the
\* final loop are deterministic.
CanStep ==
    CASE pc = "idle" ->
            \/ noLineup(players, positions)
            \/ newPopulation(periodCount, POP_MAX, players, positions) # {}
      [] pc = "generate" ->
            generate(population, generations, players, positions, periodCount) # {}
      [] OTHER -> TRUE

\* C8: every call ends: the loop runs at most GENERATIONS generate() /
\* evaluate() iterations, no acceptReject call makes more than
\* ATTEMPT_CAP + 1 draws, and the call reaches its end: a call that has not
\* ended always has a next step, and each of its steps lowers Rank >= 0.
\* (For a round count of 0 the end is the error of C4, not a return.)
C8_Terminates ==
    /\ [](/\ generations <= GENERATIONS
          /\ i <= GENERATIONS
          /\ draws <= ATTEMPT_CAP + 1
          /\ Rank >= 0
          /\ CanStep)
    /\ [][~Ended => Rank' < Rank]_vars

\* C8 witness: a call returned after all generations, one selection of which
\* used every draw.
C8_Witness ==
    /\ Returned
    /\ generations = GENERATIONS
    /\ i = GENERATIONS
    /\ draws = ATTEMPT_CAP + 1

\* C9 as stated: when nobody ranks any slot, the returned mapping assigns
\* min(participant-count, slot-count) slots.
C9_Original ==
    (Returned /\ NobodyRanksASlot)
        => Cardinality(AssignedSlots) = Min(Len(players), Len(positions))

\* C9 amended: the same for pairwise distinct slot names; one player and one
\* slot give the mapping slot -> that player's id.
C9_UnrankedStillAssigned ==
    (Returned /\ NobodyRanksASlot /\ DistinctSlotNames)
        => /\ Cardinality(AssignedSlots) = Min(Len(players), Len(positions))
           /\ (Len(players) = 1 /\ Len(positions) = 1)
                  => assignments = (positions[1] :> players[1].id)

\* C9 witness: one player with an empty preference list and one slot; every
\* candidate has fitness 0 and the slot holds the player's id.
C9_Witness ==
    /\ Returned
    /\ Len(players) = 1
    /\ players[1].pref = <<>>
    /\ Len(positions) = 1
    /\ generations = GENERATIONS
    /\ \A k \in DOMAIN population : RatEq(population[k].fitness, Zero)
    /\ assignments = (positions[1] :> players[1].id)

MaxOf(s) == CHOOSE x \in Range(s) : \A y \in Range(s) : y <= x
MinOf(s) == CHOOSE x \in Range(s) : \A y \in Range(s) : x <= y

\* C10: getGameScoreDistribution returns max - min of a non-empty score
\* list, and 0 for a list of zero or one element.
C10_DistributionIsMaxMinusMin ==
    distribution # <<>>
        => /\ Len(playerScores) > 0
                  => distribution[1] = MaxOf(playerScores) - MinOf(playerScores)
           /\ Len(playerScores) <= 1 => distribution[1] = 0

\* C10 witness: the distribution of an unsorted list of three scores.
C10_Witness ==
    /\ distribution # <<>>
    /\ Len(playerScores) = 3
    /\ playerScores[1] < playerScores[2]
    /\ playerScores[3] < playerScores[1]
    /\ distribution[1] = playerScores[2] - playerScores[3]

DistinctNames == \A a, b \in DOMAIN players : a # b => players[a].name # players[b].name

\* Every candidate the constructor can build for the present input.
Candidates == {d.dna.genes : d \in newDNA(periodCount, players, positions)}

\* The one-round candidate places every player in a slot that the player
\* ranks first.
EveryoneInFirstChoice(genes) ==
    \A p \in DOMAIN players :
        \E j \in DOMAIN positions :
            /\ j \in DOMAIN genes[1]
            /\ genes[1][j] = players[p]
            /\ indexOf(players[p].pref, positions[j]) = 0

EqualScores(genes) ==
    LET scores == sumPlayerScores(genes, players, positions, periodCount)
    IN \A a, b \in DOMAIN scores : scores[a] = scores[b]

\* No candidate for the present input is fitter than the evaluated one.
NoFitterCandidate ==
    \A g \in Candidates :
        RatLeq(getGameScoreRatio(g, players, positions, periodCount),
               population[1].fitness)

\* C11 as stated: a one-round candidate that places every player in a
\* first-choice slot, all scores being equal, is at least as fit as every
\* other candidate for the same players and slots.
C11_Original ==
    (pc = "scored" /\ periodCount = 1 /\ Len(population) = 1
        /\ EveryoneInFirstChoice(population[1].genes)
        /\ EqualScores(population[1].genes))
        => NoFitterCandidate

\* C11 amended: the same for players whose names are pairwise distinct (the
\* evaluator matches players by name).
C11_FirstChoicesAreFittest ==
    (pc = "scored" /\ periodCount = 1 /\ Len(population) = 1 /\ DistinctNames
        /\ EveryoneInFirstChoice(population[1].genes)
        /\ EqualScores(population[1].genes))
        => NoFitterCandidate

\* C11 witness: four players with different names, each in the first-choice
\* slot, each also ranking two other slots; the fitness is the slot count.
C11_Witness ==
    /\ pc = "scored"
    /\ Len(players) = MaxRoster
    /\ DistinctNames
    /\ \A p \in DOMAIN players : Len(players[p].pref) = 3
    /\ EveryoneInFirstChoice(population[1].genes)
    /\ EqualScores(population[1].genes)
    /\ RatEq(population[1].fitness, Rat(Len(positions), 1))

\* Request r takes the step that leaves pc value `at`.
Steps(r, at) == requests[r].pc = at /\ requests'[r].pc # at

\* C12: PUT /players/:id only replaces: a PUT that finds no record answers
\* 404 and writes nothing, and whenever a PUT writes, the id holds a record
\* at that moment, under every interleaving of PUT and DELETE requests.
C12_PutNeverCreates ==
    [][\A r \in DOMAIN requests :
          requests[r].method = "PUT" =>
              /\ (Steps(r, "get") /\ kv[requests[r].id] = <<>>)
                     => /\ requests'[r].status = 404
                        /\ requests'[r].pc = "done"
                        /\ kv' = kv
              /\ Steps(r, "set") => kv[requests[r].id] # <<>>]_vars

\* The header is exactly two words with one space between them, the first
\* word "bearer" in some letter case, the second a token verifyToken accepts.
BearerWithValidToken(h) ==
    /\ h # <<>>
    /\ Len(h[1]) >= 2
    /\ h[1][1] \in {"Bearer", "bearer", "BEARER"}
    /\ h[1][2] = SP
    /\ \A k \in 3..Len(h[1]) : h[1][k] # SP
    /\ verifyToken(SubSeq(h[1], 3, Len(h[1])))

\* C13: GET /protected answers "Access granted" (status 200) exactly when
\* the Authorization header is two space-separated parts, the first being
\* "bearer" in any letter case, and verifyToken accepts the second; every
\* other request is answered with status 401.
C13_GrantedOnlyWithValidBearer ==
    \A r \in DOMAIN requests :
        (requests[r].method = "GET /protected" /\ requests[r].pc = "done")
            => IF BearerWithValidToken(requests[r].header)
               THEN requests[r].status = 200 /\ requests[r].message = Granted
               ELSE requests[r].status = 401 /\ requests[r].message # Granted

\* C13 witness: "BEARER t1" has been granted access.
C13_Witness ==
    \E r \in DOMAIN requests :
        /\ requests[r].pc = "done"
        /\ requests[r].header = <<(<<"BEARER", SP, "t1">>)>>
        /\ requests[r].status = 200
        /\ requests[r].message = Granted

\* C14: one acceptReject call makes at most ATTEMPT_CAP draws (10,000 in the
\* source): after ATTEMPT_CAP rejected draws it returns null without drawing
\* again.
C14_AtMostCapDraws == draws <= ATTEMPT_CAP

\* C15: a generate() step keeps, at every index where a parent selection
\* returned null, the candidate the previous generation held at that index
\* (same genes), and still completes: the collection is replaced by one of
\* the same size, the generation is counted and every fitness is computed
\* anew from the genes.
C15_FallbackKeepsCandidate ==
    [][pc = "generate" =>
          /\ pc' = "evaluate"
          /\ Len(population') = Len(population)
          /\ generations' = generations + 1
          /\ \A k \in DOMAIN population' :
                 /\ (k - 1 \in fallbacks' => population'[k].genes = population[k].genes)
                 /\ population'[k].fitness =
                        getGameScoreRatio(population'[k].genes, players', positions',
                                          periodCount')]_vars

\* C15 witness: a generation in which the selection failed at the last index
\* and succeeded at the first, which holds a child that differs from the
\* candidate kept at the last index.
C15_Witness ==
    /\ pc = "evaluate"
    /\ fallbacks = {POP_MAX - 1}
    /\ draws = ATTEMPT_CAP + 1
    /\ population[1].genes # population[POP_MAX].genes

\* C16: after every evaluate(), best is a candidate of the population and no
\* candidate of the population has a higher fitness.
C16_BestIsFittest ==
    (pc # "evaluate" /\ generations > 0)
        => /\ best # <<>>
           /\ best[1] \in Range(population)
           /\ \A k \in DOMAIN population :
                  RatLeq(population[k].fitness, best[1].fitness)

\* Some candidate of the population has a fitness of perfectScore or more.
ReachedPerfectScore ==
    \E k \in DOMAIN population : RatLeq(Rat(perfectScore, 1), population[k].fitness)

\* C17: evaluate() marks the population converged exactly when its highest
\* fitness is perfectScore (8) or more, and a converged run goes on to read
\* its result: it is never again about to generate() or evaluate().
C17_ConvergedStopsTheRun ==
    /\ [][pc = "evaluate" =>
              /\ finished' <=> ReachedPerfectScore
              /\ finished' => pc' = "extract"]_vars
    /\ [](finished => pc \in {"extract", "done", "thrown"})
    /\ [][(finished /\ pc' # "idle") =>
              (finished' /\ generations' = generations)]_vars

\* C17 witness: a run that converged in its first generation and returned
\* without the remaining generations.
C17_Witness ==
    /\ Returned
    /\ finished
    /\ generations = 1
    /\ generations < GENERATIONS
    /\ \A k \in DOMAIN population : RatEq(population[k].fitness, Rat(perfectScore, 1))

\* C18: the child of A.crossover(B) has the round count n of A, and for some
\* cut point m in 0..n-1 every round i > m is A's round i and every round
\* i <= m is B's round i (rounds counted from 0); for n = 1 the child's
\* genes are B's genes.
C18_CrossoverCutsAtMidpoint ==
    child # <<>> =>
        LET A == population[child[1].this]
            B == population[child[1].partner]
            genes == child[1].dna.genes
            n == Len(A.genes)
        IN /\ Len(genes) = n
           /\ \E m \in 0..(n - 1) :
                  \A k \in 1..n :
                      genes[k] = IF k - 1 > m THEN A.genes[k] ELSE B.genes[k]
           /\ n = 1 => genes = B.genes

\* C18 witness: a two-round crossover cut at m = 0 whose child has B's
\* first round and A's second round and equals neither parent.
C18_Witness ==
    /\ child # <<>>
    /\ Len(child[1].dna.genes) = 2
    /\ child[1].dna.genes[1] = population[child[1].partner].genes[1]
    /\ child[1].dna.genes[2] = population[child[1].this].genes[2]
    /\ child[1].dna.genes # population[child[1].this].genes
    /\ child[1].dna.genes # population[child[1].partner].genes

\* The score of player p for one round t and one slot j (both counted from
\* 1) as the specification words it: slot-count minus the rank of the slot
\* in p's preference list when the entry at j has p's name and the slot is
\* listed, else 0.
SpecTerm(genes, p, t, j) ==
    IF /\ j \in DOMAIN genes[t]
       /\ genes[t][j].name = players[p].name
       /\ \E r \in DOMAIN players[p].pref : players[p].pref[r] = positions[j]
    THEN Len(positions)
            - ((CHOOSE r \in DOMAIN players[p].pref :
                   players[p].pref[r] = positions[j]) - 1)
    ELSE 0

SpecScores(genes) ==
    [p \in DOMAIN players |->
        SumSeq([t \in 1..periodCount |->
            SumSeq([j \in 1..Len(positions) |-> SpecTerm(genes, p, t, j)])])]

\* The largest score minus the smallest, 0 without scores.
SpecDistribution(scores) ==
    IF Len(scores) = 0 THEN 0 ELSE MaxOf(scores) - MinOf(scores)

\* C19: the fitness the evaluator computes is mean / (distribution + 1) of
\* the players' scores, a score being the sum over rounds and slots of
\* SpecTerm, and the mean being 0 when there are no players.
C19_FitnessIsMeanOverDistribution ==
    pc = "scored" =>
        \A k \in DOMAIN population :
            LET scores == SpecScores(population[k].genes)
                d == SpecDistribution(scores)
            IN IF Len(players) = 0
               THEN RatEq(population[k].fitness, Zero)
               ELSE RatEq(population[k].fitness,
                          Rat(SumSeq(scores), Len(players) * (d + 1)))

\* C19 witness: two players, two slots and two rounds with scores 2 and 1:
\* mean 3/2, distribution 1, fitness 3/4.
C19_Witness ==
    /\ pc = "scored"
    /\ Len(players) = 2
    /\ Len(positions) = 2
    /\ periodCount = 2
    /\ SpecScores(population[1].genes) = <<2, 1>>
    /\ RatEq(population[1].fitness, Rat(3, 4))

\* The row holds every player of the players array exactly once: it has as
\* many entries as there are players and is the players array reordered.
IsOrderingOfPlayers(row) ==
    /\ Len(row) = Len(players)
    /\ \E f \in [DOMAIN row -> DOMAIN players] :
           /\ \A a, b \in DOMAIN row : a # b => f[a] # f[b]
           /\ \A a \in DOMAIN row : row[a] = players[f[a]]

\* C20: in a run with a non-empty slot list, every round of every candidate
\* (of the population and best), after construction, crossover, mutation
\* and the selection fallback alike, is an ordering of all the players,
\* never one cut to the slot count; every candidate has periodCount rounds.
C20_RoundsOrderAllPlayers ==
    Len(positions) > 0 =>
        \A d \in Range(population) \cup Range(best) :
            /\ Len(d.genes) = periodCount
            /\ \A t \in DOMAIN d.genes : IsOrderingOfPlayers(d.genes[t])

\* C20 witness: two players and one slot, two rounds; after two generations
\* without a fallback the population holds a candidate whose two rounds
\* order the two players differently.
C20_Witness ==
    /\ pc = "evaluate"
    /\ Len(players) = 2
    /\ Len(positions) = 1
    /\ periodCount = 2
    /\ generations = GENERATIONS
    /\ fallbacks = {}
    /\ \E k \in DOMAIN population :
           /\ population[k].genes[1] # population[k].genes[2]
           /\ Len(population[k].genes[1]) = 2

\* A population has been constructed in the present call.
Constructed == pc \in {"generate", "evaluate", "extract", "thrown"}
                  \/ (pc = "done" /\ ~noLineup(players, positions))

\* C21: after construction and after every generate() step the population
\* holds exactly POP_MAX candidates, whichever mix of crossover children
\* and fallback candidates the step produced.
C21_PopulationSizeFixed ==
    /\ Constructed => Len(population) = POP_MAX
    /\ population # <<>> => Len(population) = POP_MAX

\* C21 witness: the last generation kept the old candidate at index 0 and
\* put a crossover child at the other indices.
C21_Witness ==
    /\ pc = "evaluate"
    /\ generations = GENERATIONS
    /\ fallbacks = {0}
    /\ Len(population) = POP_MAX
    /\ POP_MAX > 1

\* The genes of every candidate of the population, as round arrays.
PopulationRows(h, pop) == [k \in DOMAIN pop |-> deref(h, pop[k].genes)]

\* C22: no step changes the round arrays of a candidate of the population,
\* the parents of the child included, although crossover hands the child
\* the parents' own arrays; mutation changes the child only; and fitness
\* evaluation changes neither the genes nor the arrays, only the fitness.
C22_GenesChangeOnlyByMutationOfChild ==
    [][/\ PopulationRows(heap', population') = PopulationRows(heap, population)
       /\ pc = "crossover" =>
              \A k \in DOMAIN child'[1].dna.genes :
                  child'[1].dna.genes[k]
                      \in {population[child'[1].this].genes[k],
                           population[child'[1].partner].genes[k]}
       /\ pc = "fitness" =>
              /\ heap' = heap
              /\ child'[1].dna.genes = child[1].dna.genes
              /\ \A k \in DOMAIN population :
                     population'[k].genes = population[k].genes]_vars

\* C22 witness: a child whose first round was mutated: it no longer holds
\* its parent's array, the two arrays differ, and the child has a positive
\* fitness.
C22_Witness ==
    /\ pc = "bred"
    /\ child[1].dna.genes[1] # population[child[1].partner].genes[1]
    /\ heap[child[1].dna.genes[1]] # heap[population[child[1].partner].genes[1]]
    /\ RatLess(Zero, child[1].dna.fitness)

\* The id of entry k (counted from 1) of the round, or null without one.
EntryId(round, k) == IF k \in DOMAIN round THEN round[k].id ELSE NULL

\* The last index at which the slot list holds the name.
LastIndexOf(name) ==
    CHOOSE k \in DOMAIN positions :
        positions[k] = name /\ \A m \in DOMAIN positions : positions[m] = name => m <= k

\* A call for non-empty inputs and at least one round has returned.
ReturnedFromSearch ==
    Returned /\ ~noLineup(players, positions) /\ periodCount >= 1

\* C23 as stated: the returned mapping is read from round 0 of best as the
\* loop left it: slot i maps to the id of entry i of that round, or to null
\* when the round has no entry i.
C23_Original ==
    ReturnedFromSearch =>
        /\ best # <<>>
        /\ \A k \in DOMAIN positions :
               assignments[positions[k]] = EntryId(best[1].genes[1], k)

\* C23 amended: the same, a slot name listed more than once mapping to the
\* entry at the last index that holds the name; no entry beyond the first
\* slot-count entries is read.
C23_MappingReadFromBestRoundZero ==
    ReturnedFromSearch =>
        /\ best # <<>>
        /\ best[1] \in Range(population)
        /\ DOMAIN assignments = Range(positions)
        /\ \A name \in Range(positions) :
               assignments[name] = EntryId(best[1].genes[1], LastIndexOf(name))

\* C23 witness: two players with different ids and one slot: the mapping
\* holds the id of entry 0 of best's round 0, which is not the first
\* candidate's, and not the id of entry 1.
C23_Witness ==
    /\ ReturnedFromSearch
    /\ Len(players) = 2
    /\ DistinctIds
    /\ Len(positions) = 1
    /\ best[1].genes[1] # population[1].genes[1]
    /\ assignments = (positions[1] :> best[1].genes[1][1].id)
    /\ assignments[positions[1]] # best[1].genes[1][2].id

\* C24: whatever the round count (>= 1) and the cut point, round 0 of the
\* child a crossover returns is round 0 of parent B (the partner), the very
\* array; it is parent A's round 0 only when A and B are one candidate.
C24_ChildRoundZeroIsPartners ==
    (pc = "mutate" /\ child # <<>>) =>
        /\ Len(child[1].dna.genes) >= 1
        /\ child[1].dna.genes[1] = population[child[1].partner].genes[1]
        /\ child[1].this # child[1].partner
               => child[1].dna.genes[1] # population[child[1].this].genes[1]

\* C24 witness: a two-round child of two different parents, cut at 0: round
\* 1 is A's array, round 0 is B's.
C24_Witness ==
    /\ pc = "mutate"
    /\ child[1].this # child[1].partner
    /\ Len(child[1].dna.genes) = 2
    /\ child[1].dna.genes[2] = population[child[1].this].genes[2]
    /\ child[1].dna.genes[1] = population[child[1].partner].genes[1]

NobodyFit == \A k \in DOMAIN population : RatLeq(population[k].fitness, Zero)

\* C25: acceptReject never returns a candidate whose fitness is <= 0; hence
\* a generate() that starts with no fitness above 0 ends every selection
\* with null and leaves the same candidates at the same indices, while
\* counting one more generation.
C25_NoSelectionKeepsPopulation ==
    /\ [](pc = "generate" =>
              \A a \in acceptReject(population,
                                    recordFrom(population, 0, 0, Zero).record) :
                  /\ a.partner # <<>> => RatLess(Zero, population[a.partner[1]].fitness)
                  /\ NobodyFit => a.partner = <<>>)
    /\ [][(pc = "generate" /\ NobodyFit) =>
              /\ population' = population
              /\ fallbacks' = {k - 1 : k \in DOMAIN population}
              /\ generations' = generations + 1]_vars

\* C25 witness: two generations over two players nobody of whom ranks a
\* slot: every fitness is 0, every index fell back, and the two candidates
\* still differ.
C25_Witness ==
    /\ pc = "evaluate"
    /\ generations = GENERATIONS
    /\ NobodyFit
    /\ Len(players) = 2
    /\ fallbacks = {k - 1 : k \in DOMAIN population}
    /\ population[1].genes # population[POP_MAX].genes

\* C26: after the construction of the population and after every generate()
\* step (so wherever generate() selects and evaluate() scans), the fitness
\* field of each candidate is the evaluator's value for the genes the
\* candidate holds.
C26_FitnessNeverStale ==
    Constructed =>
        /\ \A k \in DOMAIN population :
               population[k].fitness =
                   getGameScoreRatio(population[k].genes, players, positions, periodCount)
        /\ \A k \in DOMAIN best :
               best[k].fitness =
                   getGameScoreRatio(best[k].genes, players, positions, periodCount)

\* C26 witness: after a generation of crossover children only, two
\* candidates with different genes and different positive fitness values.
C26_Witness ==
    /\ pc = "evaluate"
    /\ generations = GENERATIONS
    /\ fallbacks = {}
    /\ RatLess(Zero, population[1].fitness)
    /\ RatLess(population[1].fitness, population[POP_MAX].fitness)

\* C27: evaluate() runs only after a generate() (never on the initial
\* population) and takes best from the present generation alone: after it,
\* best is the candidate of the present population that its scan selects,
\* whatever the previous best was.  (That a generation can be less fit than
\* the previous best is the witness.)
C27_BestFromPresentGenerationOnly ==
    /\ [](pc = "evaluate" => generations >= 1)
    /\ [][pc = "evaluate" =>
              /\ best' # <<>>
              /\ best'[1] \in Range(population)
              /\ best' = evaluate(population, finished).best]_vars

\* C27 witness: the second generation is about to be evaluated and each of
\* its candidates is strictly less fit than the best recorded after the
\* first generation.
C27_Witness ==
    /\ pc = "evaluate"
    /\ generations = 2
    /\ best # <<>>
    /\ \A k \in DOMAIN population : RatLess(population[k].fitness, best[1].fitness)

SuppliesId(r) ==
    /\ "id" \in DOMAIN requests[r].body
    /\ requests[r].body["id"].type = "string"
    /\ requests[r].body["id"].text # ""

\* C29: POST /players with a client-supplied id makes no existence check:
\* whatever is stored under that id, the POST stores its own body there and
\* answers 201; and no value stored by POST or PUT has an id field.
C29_PostReplacesAndValuesHaveNoId ==
    /\ [](\A key \in DOMAIN kv : kv[key] # <<>> => "id" \notin DOMAIN kv[key][1])
    /\ [][\A r \in DOMAIN requests :
             /\ (requests[r].method = "POST" /\ Steps(r, "set") /\ SuppliesId(r))
                    => /\ kv'[requests[r].body["id"].text]
                              = <<withoutId(requests[r].body)>>
                       /\ requests'[r].status = 201
                       /\ requests'[r].pc = "done"
             /\ (requests[r].method \in {"POST", "PUT"} /\ Steps(r, "set"))
                    => /\ kv'[requests'[r].id] # <<>>
                       /\ DOMAIN kv'[requests'[r].id][1] = {"name"}
                       /\ kv'[requests'[r].id][1]["name"]
                              = requests[r].body["name"]]_vars

\* C29 witness: a POST that named the id of a stored record has been
\* answered 201, and the record now holds the POST's name in place of
\* another one's.
C29_Witness ==
    \E r \in DOMAIN requests :
        /\ requests[r].method = "POST"
        /\ requests[r].pc = "done"
        /\ requests[r].status = 201
        /\ SuppliesId(r)
        /\ requests[r].body["name"] = jsonString("v2")
        /\ kv[requests[r].id] = <<withoutId(requests[r].body)>>
        /\ \E q \in DOMAIN requests :
              /\ q # r
              /\ requests[q].method = "PUT"
              /\ requests[q].pc = "done"
              /\ requests[q].status = 200
              /\ requests[q].id = requests[r].id
              /\ requests[q].body["name"] = jsonString("v1")

\* C30: for non-empty inputs at least one generate()/evaluate() iteration
\* runs before the mapping is read, every evaluate() leaves best non-empty
\* (the candidate at index 0 when no candidate has a fitness above 0), and
\* best stays non-empty from then on: the entry point's fallback to the
\* first candidate of the population is never taken.
C30_FallbackToFirstNeverTaken ==
    /\ [](pc = "extract" => (best # <<>> /\ generations >= 1))
    /\ []((Constructed /\ best = <<>>) =>
              \/ (pc = "generate" /\ generations = 0)
              \/ (pc = "evaluate" /\ generations = 1))
    /\ [][pc = "evaluate" =>
              /\ best' # <<>>
              /\ (\A k \in DOMAIN population :
                      ~RatLess(Zero, population[k].fitness))
                     => best' = <<population[1]>>]_vars

\* C30 witness: the loop has ended with no candidate of fitness above 0,
\* and best is the candidate at index 0.
C30_Witness ==
    /\ pc = "extract"
    /\ generations = GENERATIONS
    /\ Len(population) = POP_MAX
    /\ \A k \in DOMAIN population : RatEq(population[k].fitness, Zero)
    /\ best = <<population[1]>>

====
